---- MODULE Spec2Model ----
(***************************************************************************)
(* Model of cmd/rerunfails.go of gotestsum: the rerun-of-failed-tests      *)
(* loop (rerunFailed), its failure recorder, its test case filter and its  *)
(* outcome classifier (hasErrors).                                         *)
(*                                                                         *)
(* rerunFailed is one sequential function that blocks on its external      *)
(* collaborators (the go test subprocess, the event scanner, the coverage  *)
(* files).  The variable pc is the position of rerunFailed in its body;    *)
(* there is one action per blocking step and per way out of it.            *)
(***************************************************************************)
EXTENDS Integers, Sequences, FiniteSets, TLC

(***************************************************************************)
(* Bounds of the model.                                                    *)
(***************************************************************************)
\* largest value of opts.rerunFailsMaxAttempts that is tried
MaxAttemptsBound == 3
\* number of scanner steps (events, protocol errors, panics) in one session
MaxEvents == 2
\* largest exit code a go test subprocess returns
MaxExitCode == 2

(***************************************************************************)
(* Test names are strings, written as sequences of characters; a subtest   *)
(* name holds the separator "/".                                           *)
(***************************************************************************)
TestA == <<"A">>
TestB == <<"B">>
TestASub == <<"A", "/", "s">>
TestNames == {TestA, TestB, TestASub}
Packages == {"p"}

\* testjson.TestCase: identity is (Package, Test)
TestCases == [Package : Packages, Test : TestNames]
\* the zero TestCase{}
EmptyTestCase == [Package |-> "", Test |-> <<>>]

\* testjson.TestName.IsSubTest: the name contains the separator
IsSubTest(test) == \E k \in 1..Len(test) : test[k] = "/"

\* testjson.TestEvent; a package event carries no test name
Event(pkg, test, action) == [Package |-> pkg, Test |-> test, Action |-> action]
PackageEvent(event) == event.Test = <<>>

\* test is name itself, or a subtest of name, or a parent test of name
Related(test, name) ==
    \/ test = name
    \/ Len(name) < Len(test) /\ SubSeq(test, 1, Len(name) + 1) = name \o <<"/">>
    \/ Len(test) < Len(name) /\ SubSeq(name, 1, Len(test) + 1) = test \o <<"/">>

\* the events the subprocess that reruns tc is taken to emit: go test runs
\* the tests its -test.run pattern selects, so a test fails in it only if it
\* is tc's test, one of its subtests or one of its parents
FailEvents(tc) ==
    {Event(tc.Package, test, "fail") : test \in {t \in TestNames : Related(t, tc.Test)}}
PassEvents(tc) == {Event(tc.Package, tc.Test, "pass")}
PackageEvents(tc) == {Event(tc.Package, <<>>, "fail")}
Events(tc) == FailEvents(tc) \cup PassEvents(tc) \cup PackageEvents(tc)

(***************************************************************************)
(* Errors.  nil is Nil; the error of a subprocess that exited with code c  *)
(* (c > 0) is ExitError(c).                                                *)
(***************************************************************************)
Err(kind, code) == [kind |-> kind, code |-> code]
Nil == Err("nil", 0)
ExitError(c) == Err("exit", c)
\* the results of cmd.Wait(): nil on code 0
ExitErrors == {Nil} \cup {ExitError(c) : c \in 1..MaxExitCode}

\* ExitCodeWithDefault: nil is 0, an exit error gives its code
ExitCodeWithDefault(err) == IF err = Nil THEN 0 ELSE err.code

Range(s) == {s[k] : k \in 1..Len(s)}

Case(test) == [Package |-> "p", Test |-> test]
\* the lists of failures of the initial run that are tried
InitialFailures ==
    { <<>>,
      <<Case(TestA)>>,
      <<Case(TestASub)>>,
      <<Case(TestA), Case(TestB)>>,
      <<Case(TestASub), Case(TestA)>> }

(***************************************************************************)
(* testjson.Execution, as far as rerunfails.go reads it.                   *)
(***************************************************************************)
\* exec.Failed()
ExecFailed(exec) == exec.failed
\* len(exec.Errors())
ExecErrorCount(exec) == exec.errors
\* exec.HasPanic()
ExecHasPanic(exec) == exec.panic
\* exec.Package(name).Failed
PackageFailed(exec, pkg) == SelectSeq(exec.failed, LAMBDA tc : tc.Package = pkg)
\* exec.Package(name).Passed
PackagePassed(exec, pkg) == SelectSeq(exec.passed, LAMBDA tc : tc.Package = pkg)

\* Package.LastFailedByName: the last failed case of that name, else TestCase{}
LastFailedByName(failed, test) ==
    LET hits == {k \in 1..Len(failed) : failed[k].Test = test}
    IN  IF hits = {} THEN EmptyTestCase
        ELSE failed[CHOOSE k \in hits : \A j \in hits : j <= k]

\* the scanner's update of the shared execution for one event
ExecAdd(exec, event) ==
    IF PackageEvent(event) THEN exec
    ELSE IF event.Action = "fail"
         THEN [exec EXCEPT !.failed = Append(@, [Package |-> event.Package, Test |-> event.Test])]
         ELSE IF event.Action = "pass"
              THEN [exec EXCEPT !.passed = Append(@, [Package |-> event.Package, Test |-> event.Test])]
              ELSE exec

(***************************************************************************)
(* The test case filters.                                                  *)
(***************************************************************************)
\* a is a parent test of b
IsParentOf(a, b) ==
    /\ a.Package = b.Package
    /\ Len(a.Test) < Len(b.Test)
    /\ SubSeq(b.Test, 1, Len(a.Test) + 1) = a.Test \o <<"/">>

RECURSIVE FilterFailedUniquePrefix(_, _)
FilterFailedUniquePrefix(tcs, n) ==
    IF n = 0 THEN <<>>
    ELSE LET rest == FilterFailedUniquePrefix(tcs, n - 1)
             tc == tcs[n]
         IN  IF \/ \E j \in 1..(n - 1) : tcs[j] = tc
                \/ \E j \in 1..Len(tcs) : IsParentOf(tc, tcs[j])
             THEN rest
             ELSE Append(rest, tc)

\* testjson.FilterFailedUnique: one case per identity, leaves only
FilterFailedUnique(tcs) == FilterFailedUniquePrefix(tcs, Len(tcs))

\* the filter that lets the subtests through
RootCasesFilter_SubTestsToo(tcs) == tcs

\* the root-only filter of rerunFailsFilter
RootCasesFilter(tcs) == SelectSeq(tcs, LAMBDA tc : ~IsSubTest(tc.Test))

rerunFailsFilter(o, tcs) ==
    IF o.rerunFailsRunRootCases THEN RootCasesFilter(tcs) ELSE FilterFailedUnique(tcs)

(***************************************************************************)
(* failureRecorder                                                         *)
(***************************************************************************)
\* a recorder that starts with an error
newFailureRecorder_WithError == [failures |-> <<>>, lastErr |-> ExitError(1)]

newFailureRecorder == [failures |-> <<>>, lastErr |-> Nil]
newFailureRecorderFromExecution(exec) == [failures |-> ExecFailed(exec), lastErr |-> Nil]
count(r) == Len(r.failures)

\* failureRecorder.Event without the test for a package event
RecorderEvent_PackageToo(r, event, execution) ==
    IF event.Action = "fail"
    THEN LET tc == LastFailedByName(PackageFailed(execution, event.Package), event.Test)
         IN  [r EXCEPT !.failures = Append(@, tc)]
    ELSE r

\* failureRecorder.Event: the recorder after the event
RecorderEvent(r, event, execution) ==
    IF ~PackageEvent(event) /\ event.Action = "fail"
    THEN LET tc == LastFailedByName(PackageFailed(execution, event.Package), event.Test)
         IN  [r EXCEPT !.failures = Append(@, tc)]
    ELSE r

(***************************************************************************)
(* hasErrors, the outcome classifier                                       *)
(***************************************************************************)
\* hasErrors with the panic looked at first
hasErrors_PanicFirst(err, exec) ==
    CASE ExecHasPanic(exec) -> Err("suspected panic", 0)
      [] ~ExecHasPanic(exec) /\ ExecErrorCount(exec) > 0 -> Err("previous run had errors", 0)
      [] ~ExecHasPanic(exec) /\ ExecErrorCount(exec) <= 0 /\ ExitCodeWithDefault(err) > 1 ->
            Err("unexpected go test exit code", ExitCodeWithDefault(err))
      [] OTHER -> Nil

hasErrors(err, exec) ==
    CASE ExecErrorCount(exec) > 0 -> Err("previous run had errors", 0)
      [] ExecErrorCount(exec) <= 0 /\ ExitCodeWithDefault(err) > 1 ->
            Err("unexpected go test exit code", ExitCodeWithDefault(err))
      [] ExecErrorCount(exec) <= 0 /\ ExitCodeWithDefault(err) <= 1 /\ ExecHasPanic(exec) ->
            Err("suspected panic", 0)
      [] OTHER -> Nil

(***************************************************************************)
(* Temporary coverage paths: fmt.Sprintf("%s.%d.%d", main, attempts, i)    *)
(***************************************************************************)
Digit(d) ==
    CASE d = 0 -> "0" [] d = 1 -> "1" [] d = 2 -> "2" [] d = 3 -> "3" [] d = 4 -> "4"
      [] d = 5 -> "5" [] d = 6 -> "6" [] d = 7 -> "7" [] d = 8 -> "8" [] d = 9 -> "9"

RECURSIVE Itoa(_)
Itoa(n) == IF n < 10 THEN Digit(n) ELSE Itoa(n \div 10) \o Digit(n % 10)

\* the path without the index of the inner loop
RerunProfilePath_NoIndex(mainPath, attempt, idx) ==
    mainPath \o "." \o Itoa(attempt)

RerunProfilePath(mainPath, attempt, idx) ==
    mainPath \o "." \o Itoa(attempt) \o "." \o Itoa(idx)

mainProfilePath == "cover.out"


(***************************************************************************)
(* The state of one call of rerunFailed and of its collaborators.          *)
(***************************************************************************)
VARIABLES
    opts,            \* rerunFailsMaxAttempts, rerunFailsRunRootCases, isCoverprofile
    initialFailed,   \* exec.Failed() when rerunFailed was called
    exec,            \* scanConfig.Execution, shared by all invocations
    rec,             \* the recorder whose failures drive the current round
    nextRec,         \* the recorder of the current round
    attempts,        \* the loop counter of the outer loop
    selected,        \* tcFilter(rec.failures) of the current round
    i,               \* the index of the inner loop (0-based, as in the code)
    pc,              \* the position of rerunFailed
    exitErr,         \* the result of goTestProc.cmd.Wait() of the current invocation
    rerunProfilePath,\* the temporary coverage path of the current invocation
    rerunProfiles,   \* the parsed profiles, each named by the file it was read from
    tmpFiles,        \* the temporary coverage files that exist
    mainProfile,     \* the original coverage file: times written, profiles combined
    ret,             \* the error rerunFailed returned
    fatal,           \* the step whose error ended the session, "" if none
    active,          \* the subprocesses started and not yet awaited
    log,             \* one record per invocation started, in order
    rounds,          \* the number of rounds begun
    nevents,         \* the number of scanner steps so far
    stream,          \* the events the scanner decoded in the current invocation
    forwarded,       \* the events passed on to the wrapped handler in it
    roundFailed,     \* the cases with a non-package fail event in the current round
    handedOver,      \* roundFailed of the last completed round
    removeAttempted, \* the paths os.Remove was called on
    classified,      \* the inputs and the result of the last call of hasErrors
    fnpc,            \* "idle", or the position of a call of one of the other functions
    testName,        \* the argument of goTestRunFlagForTestCase
    runFlag,         \* the result of goTestRunFlagForTestCase
    report           \* what writeRerunFailsReport returned and wrote

vars == <<opts, initialFailed, exec, rec, nextRec, attempts, selected, i, pc, exitErr,
          rerunProfilePath, rerunProfiles, tmpFiles, mainProfile, ret, fatal,
          active, log, rounds, nevents, stream, forwarded, roundFailed,
          handedOver, removeAttempted, classified, fnpc, testName, runFlag, report>>

\* the variables of the calls of goTestRunFlagForTestCase and writeRerunFailsReport
pureVars == <<fnpc, testName, runFlag, report>>

\* the variables of the coverage bookkeeping
coverVars == <<rerunProfilePath, rerunProfiles, tmpFiles, mainProfile, removeAttempted>>
\* the variables of the scanner and the recorders
scanVars == <<exec, nextRec, nevents, stream, forwarded, roundFailed>>
\* the variables of the outer loop
loopVars == <<opts, initialFailed, rec, attempts, selected, rounds, handedOver>>

NoReport == [err |-> Nil, written |-> FALSE, lines |-> <<>>]
NoClassification == [called |-> FALSE, err |-> Nil, errors |-> 0, panic |-> FALSE, result |-> Nil]

Init ==
    /\ opts \in [rerunFailsMaxAttempts : 0..MaxAttemptsBound,
                 rerunFailsRunRootCases : BOOLEAN,
                 isCoverprofile : BOOLEAN]
    /\ exec \in [failed : InitialFailures, passed : {<<>>},
                 errors : {0}, panic : {FALSE}]
    /\ initialFailed = ExecFailed(exec)
    /\ rec = newFailureRecorderFromExecution(exec)
    /\ nextRec = newFailureRecorder
    /\ attempts = 0
    /\ selected = <<>>
    /\ i = 0
    /\ pc = "loop"
    /\ exitErr = Nil
    /\ rerunProfilePath = ""
    /\ rerunProfiles = <<>>
    /\ tmpFiles = {}
    /\ mainProfile = [writes |-> 0, combined |-> <<>>]
    /\ ret = Nil
    /\ fatal = ""
    /\ active = {}
    /\ log = <<>>
    /\ rounds = 0
    /\ nevents = 0
    /\ stream = <<>>
    /\ forwarded = <<>>
    /\ roundFailed = {}
    /\ handedOver = {}
    /\ removeAttempted = {}
    /\ classified = NoClassification
    /\ fnpc = "idle"
    /\ testName = <<>>
    /\ runFlag = <<>>
    /\ report = NoReport

\* rerunFailed returns err from inside a round
Return(err, why) ==
    /\ ret' = err
    /\ fatal' = why
    /\ pc' = "done"

(***************************************************************************)
(* The outer loop, lines 79-83 and 136-137.                                *)
(***************************************************************************)
\* the loop condition with <= for <
LoopCondition_OffByOne == count(rec) > 0 /\ attempts <= opts.rerunFailsMaxAttempts

LoopCondition == count(rec) > 0 /\ attempts < opts.rerunFailsMaxAttempts

\* the loop condition holds: a round begins with a fresh recorder
BeginRound ==
    /\ pc = "loop"
    /\ LoopCondition
    /\ nextRec' = newFailureRecorder
    /\ selected' = rerunFailsFilter(opts, rec.failures)
    /\ i' = 0
    /\ rounds' = rounds + 1
    /\ roundFailed' = {}
    /\ pc' = "iter"
    /\ UNCHANGED <<opts, initialFailed, exec, rec, attempts, exitErr, ret, fatal, active, log, nevents,
                   stream, forwarded, handedOver, classified>>
    /\ UNCHANGED coverVars
    /\ UNCHANGED pureVars

\* the end of a round that keeps the failures that drove it
EndRound_KeepFailures ==
    /\ pc = "iter"
    /\ i >= Len(selected)
    /\ rec' = [nextRec EXCEPT !.failures = rec.failures \o @]
    /\ attempts' = attempts + 1
    /\ handedOver' = roundFailed
    /\ pc' = "loop"
    /\ UNCHANGED <<opts, initialFailed, selected, rounds, i, exitErr, ret, fatal, active, log, classified>>
    /\ UNCHANGED scanVars
    /\ UNCHANGED coverVars
    /\ UNCHANGED pureVars

\* the inner loop is over: the round's recorder drives the next round
EndRound ==
    /\ pc = "iter"
    /\ i >= Len(selected)
    /\ rec' = nextRec
    /\ attempts' = attempts + 1
    /\ handedOver' = roundFailed
    /\ pc' = "loop"
    /\ UNCHANGED <<opts, initialFailed, selected, rounds, i, exitErr, ret, fatal, active, log, classified>>
    /\ UNCHANGED scanVars
    /\ UNCHANGED coverVars
    /\ UNCHANGED pureVars

\* the loop condition fails: on to the combination of the profiles
ExitLoop ==
    /\ pc = "loop"
    /\ ~LoopCondition
    /\ pc' = "combine"
    /\ UNCHANGED <<exitErr, ret, fatal, active, log, i, classified>>
    /\ UNCHANGED loopVars
    /\ UNCHANGED scanVars
    /\ UNCHANGED coverVars
    /\ UNCHANGED pureVars

(***************************************************************************)
(* One invocation, lines 84-135.                                           *)
(***************************************************************************)
\* startGoTestFn succeeds: the subprocess runs
StartGoTest ==
    /\ pc = "iter"
    /\ i < Len(selected)
    /\ LET path == IF opts.isCoverprofile
                   THEN RerunProfilePath(mainProfilePath, attempts, i)
                   ELSE ""
       IN  /\ rerunProfilePath' = path
           /\ log' = Append(log, [attempt |-> attempts, i |-> i, tc |-> selected[i + 1],
                                  path |-> path, exit |-> Nil, fails |-> <<>>,
                                  scanned |-> FALSE, waited |-> FALSE])
    /\ active' = active \cup {<<attempts, i>>}
    /\ stream' = <<>>
    /\ forwarded' = <<>>
    /\ pc' = "scan"
    /\ UNCHANGED <<exec, nextRec, nevents, roundFailed, exitErr, ret, fatal, i, classified,
                   rerunProfiles, tmpFiles, mainProfile, removeAttempted>>
    /\ UNCHANGED loopVars
    /\ UNCHANGED pureVars

\* startGoTestFn fails
StartGoTestFails ==
    /\ pc = "iter"
    /\ i < Len(selected)
    /\ Return(Err("start", 0), "start")
    /\ UNCHANGED <<exitErr, active, log, i, classified>>
    /\ UNCHANGED loopVars
    /\ UNCHANGED scanVars
    /\ UNCHANGED coverVars
    /\ UNCHANGED pureVars

\* the events the subprocess of the current invocation may emit
EmittedEvents == IF pc = "scan" THEN Events(selected[i + 1]) ELSE {}

\* what the wrapped handler may return for an event
HandlerResults == {Nil, Err("handler", 0)}

\* the recorder that passes on the events of tests only
RecorderForward_TestEventsOnly(fwd, event, result) ==
    IF PackageEvent(event) THEN fwd ELSE Append(fwd, [event |-> event, result |-> result])

\* line 186: the call of the wrapped handler, which returns result
RecorderForward(fwd, event, result) == Append(fwd, [event |-> event, result |-> result])

\* line 186: what failureRecorder.Event returns
RecorderReturn(result) == result

\* the scanner decodes one event, adds it to the execution and hands it to
\* the round's recorder, which passes it on to the wrapped handler; the scan
\* ends with the error the recorder returns, if any
ScanEvent(event, result) ==
    /\ pc = "scan"
    /\ nevents < MaxEvents
    /\ nevents' = nevents + 1
    /\ exec' = ExecAdd(exec, event)
    /\ nextRec' = RecorderEvent(nextRec, event, exec')
    /\ stream' = Append(stream, event)
    /\ forwarded' = RecorderForward(forwarded, event, result)
    /\ LET failedCase == ~PackageEvent(event) /\ event.Action = "fail"
           tc == [Package |-> event.Package, Test |-> event.Test]
       IN  /\ roundFailed' = IF failedCase THEN roundFailed \cup {tc} ELSE roundFailed
           /\ log' = IF failedCase
                     THEN [log EXCEPT ![Len(log)].fails = Append(@, tc)]
                     ELSE log
    /\ IF RecorderReturn(result) # Nil
       THEN Return(RecorderReturn(result), "scan")
       ELSE UNCHANGED <<pc, ret, fatal>>
    /\ UNCHANGED <<exitErr, active, i, classified>>
    /\ UNCHANGED loopVars
    /\ UNCHANGED coverVars
    /\ UNCHANGED pureVars

\* the scanner records a protocol error in the execution
ScanProtocolError ==
    /\ pc = "scan"
    /\ nevents < MaxEvents
    /\ nevents' = nevents + 1
    /\ exec' = [exec EXCEPT !.errors = @ + 1]
    /\ UNCHANGED <<nextRec, stream, forwarded, roundFailed>>
    /\ UNCHANGED <<pc, exitErr, ret, fatal, active, log, i, classified>>
    /\ UNCHANGED loopVars
    /\ UNCHANGED coverVars
    /\ UNCHANGED pureVars

\* the scanner sees the output of a panic
ScanPanic ==
    /\ pc = "scan"
    /\ nevents < MaxEvents
    /\ ~exec.panic
    /\ nevents' = nevents + 1
    /\ exec' = [exec EXCEPT !.panic = TRUE]
    /\ UNCHANGED <<nextRec, stream, forwarded, roundFailed>>
    /\ UNCHANGED <<pc, exitErr, ret, fatal, active, log, i, classified>>
    /\ UNCHANGED loopVars
    /\ UNCHANGED coverVars
    /\ UNCHANGED pureVars

\* the end of the scan without the wait for the subprocess after it
ScanEnds_NoWait ==
    /\ pc = "scan"
    /\ log' = [log EXCEPT ![Len(log)].scanned = TRUE]
    /\ pc' = "classify"
    /\ UNCHANGED <<exitErr, ret, fatal, active, i, classified>>
    /\ UNCHANGED loopVars
    /\ UNCHANGED scanVars
    /\ UNCHANGED coverVars
    /\ UNCHANGED pureVars

\* ScanTestOutput returns without error: both streams are at their end
ScanEnds ==
    /\ pc = "scan"
    /\ log' = [log EXCEPT ![Len(log)].scanned = TRUE]
    /\ pc' = "wait"
    /\ UNCHANGED <<exitErr, ret, fatal, active, i, classified>>
    /\ UNCHANGED loopVars
    /\ UNCHANGED scanVars
    /\ UNCHANGED coverVars
    /\ UNCHANGED pureVars

\* ScanTestOutput returns an error
ScanFails ==
    /\ pc = "scan"
    /\ Return(Err("scan", 0), "scan")
    /\ UNCHANGED <<exitErr, active, log, i, classified>>
    /\ UNCHANGED loopVars
    /\ UNCHANGED scanVars
    /\ UNCHANGED coverVars
    /\ UNCHANGED pureVars

\* the wait that records a nil exit error too
Wait_OverwriteLastErr(err) ==
    /\ pc = "wait"
    /\ exitErr' = err
    /\ nextRec' = [nextRec EXCEPT !.lastErr = err]
    /\ active' = active \ {<<attempts, i>>}
    /\ log' = [log EXCEPT ![Len(log)].exit = err, ![Len(log)].waited = TRUE]
    /\ tmpFiles' = IF opts.isCoverprofile THEN tmpFiles \cup {rerunProfilePath} ELSE tmpFiles
    /\ pc' = IF opts.isCoverprofile THEN "parse" ELSE "classify"
    /\ UNCHANGED <<exec, nevents, stream, forwarded, roundFailed, ret, fatal, i, classified,
                   rerunProfilePath, rerunProfiles, mainProfile, removeAttempted>>
    /\ UNCHANGED loopVars
    /\ UNCHANGED pureVars

\* goTestProc.cmd.Wait() returns err; the subprocess wrote its coverage
\* profile when it exited
Wait(err) ==
    /\ pc = "wait"
    /\ exitErr' = err
    /\ nextRec' = IF err # Nil THEN [nextRec EXCEPT !.lastErr = err] ELSE nextRec
    /\ active' = active \ {<<attempts, i>>}
    /\ log' = [log EXCEPT ![Len(log)].exit = err, ![Len(log)].waited = TRUE]
    /\ tmpFiles' = IF opts.isCoverprofile THEN tmpFiles \cup {rerunProfilePath} ELSE tmpFiles
    /\ pc' = IF opts.isCoverprofile THEN "parse" ELSE "classify"
    /\ UNCHANGED <<exec, nevents, stream, forwarded, roundFailed, ret, fatal, i, classified,
                   rerunProfilePath, rerunProfiles, mainProfile, removeAttempted>>
    /\ UNCHANGED loopVars
    /\ UNCHANGED pureVars

\* the parse whose result takes the place of the profiles before it
ParseProfiles_KeepLast ==
    /\ pc = "parse"
    /\ rerunProfilePath \in tmpFiles
    /\ rerunProfiles' = <<rerunProfilePath>>
    /\ pc' = "remove"
    /\ UNCHANGED <<exitErr, ret, fatal, active, log, i, classified,
                   rerunProfilePath, tmpFiles, mainProfile, removeAttempted>>
    /\ UNCHANGED loopVars
    /\ UNCHANGED scanVars
    /\ UNCHANGED pureVars

\* cover.ParseProfiles succeeds and its result is appended
ParseProfiles ==
    /\ pc = "parse"
    /\ rerunProfilePath \in tmpFiles
    /\ rerunProfiles' = Append(rerunProfiles, rerunProfilePath)
    /\ pc' = "remove"
    /\ UNCHANGED <<exitErr, ret, fatal, active, log, i, classified,
                   rerunProfilePath, tmpFiles, mainProfile, removeAttempted>>
    /\ UNCHANGED loopVars
    /\ UNCHANGED scanVars
    /\ UNCHANGED pureVars

\* cover.ParseProfiles fails
ParseProfilesFails ==
    /\ pc = "parse"
    /\ Return(Err("failed to parse coverprofile", 0), "parse")
    /\ UNCHANGED <<exitErr, active, log, i, classified>>
    /\ UNCHANGED loopVars
    /\ UNCHANGED scanVars
    /\ UNCHANGED coverVars
    /\ UNCHANGED pureVars

\* the step that leaves the temporary file for later
RemoveProfile_Later ==
    /\ pc = "remove"
    /\ pc' = "classify"
    /\ UNCHANGED <<exitErr, ret, fatal, active, log, i, classified>>
    /\ UNCHANGED loopVars
    /\ UNCHANGED scanVars
    /\ UNCHANGED coverVars
    /\ UNCHANGED pureVars

\* os.Remove deletes the temporary file
RemoveProfile ==
    /\ pc = "remove"
    /\ removeAttempted' = removeAttempted \cup {rerunProfilePath}
    /\ tmpFiles' = tmpFiles \ {rerunProfilePath}
    /\ pc' = "classify"
    /\ UNCHANGED <<exitErr, ret, fatal, active, log, i, classified,
                   rerunProfilePath, rerunProfiles, mainProfile>>
    /\ UNCHANGED loopVars
    /\ UNCHANGED scanVars
    /\ UNCHANGED pureVars

\* os.Remove fails
RemoveProfileFails ==
    /\ pc = "remove"
    /\ removeAttempted' = removeAttempted \cup {rerunProfilePath}
    /\ Return(Err("failed to remove coverprofile", 0), "remove")
    /\ UNCHANGED <<exitErr, active, log, i, classified,
                   rerunProfilePath, rerunProfiles, tmpFiles, mainProfile>>
    /\ UNCHANGED loopVars
    /\ UNCHANGED scanVars
    /\ UNCHANGED pureVars

\* the classifier whose error is noted while the inner loop goes on
Classify_GoesOn ==
    /\ pc = "classify"
    /\ LET err == hasErrors(exitErr, exec)
       IN  /\ classified' = [called |-> TRUE, err |-> exitErr, errors |-> ExecErrorCount(exec),
                             panic |-> ExecHasPanic(exec), result |-> err]
           /\ IF err # Nil
              THEN ret' = err /\ fatal' = "classifier"
              ELSE UNCHANGED <<ret, fatal>>
           /\ i' = i + 1
           /\ pc' = "iter"
    /\ UNCHANGED <<exitErr, active, log>>
    /\ UNCHANGED loopVars
    /\ UNCHANGED scanVars
    /\ UNCHANGED coverVars
    /\ UNCHANGED pureVars

\* the classifier after which a case that failed again is run once more
Classify_Retry ==
    /\ pc = "classify"
    /\ LET err == hasErrors(exitErr, exec)
       IN  /\ classified' = [called |-> TRUE, err |-> exitErr, errors |-> ExecErrorCount(exec),
                             panic |-> ExecHasPanic(exec), result |-> err]
           /\ IF err # Nil
              THEN Return(err, "classifier") /\ i' = i
              ELSE /\ i' = IF exitErr # Nil THEN i ELSE i + 1
                   /\ pc' = "iter"
                   /\ UNCHANGED <<ret, fatal>>
    /\ UNCHANGED <<exitErr, active, log>>
    /\ UNCHANGED loopVars
    /\ UNCHANGED scanVars
    /\ UNCHANGED coverVars
    /\ UNCHANGED pureVars

\* hasErrors decides whether the session goes on
Classify ==
    /\ pc = "classify"
    /\ LET err == hasErrors(exitErr, exec)
       IN  /\ classified' = [called |-> TRUE, err |-> exitErr, errors |-> ExecErrorCount(exec),
                             panic |-> ExecHasPanic(exec), result |-> err]
           /\ IF err # Nil
              THEN Return(err, "classifier") /\ i' = i
              ELSE i' = i + 1 /\ pc' = "iter" /\ UNCHANGED <<ret, fatal>>
    /\ UNCHANGED <<exitErr, active, log>>
    /\ UNCHANGED loopVars
    /\ UNCHANGED scanVars
    /\ UNCHANGED coverVars
    /\ UNCHANGED pureVars

(***************************************************************************)
(* After the loop, lines 139-146.                                          *)
(***************************************************************************)
\* coverprofile.Combine writes the original coverage file (or there is no
\* coverage) and rerunFailed returns rec.lastErr
CombineAndReturn ==
    /\ pc = "combine"
    /\ mainProfile' = IF opts.isCoverprofile
                      THEN [writes |-> mainProfile.writes + 1, combined |-> rerunProfiles]
                      ELSE mainProfile
    /\ ret' = rec.lastErr
    /\ pc' = "done"
    /\ UNCHANGED <<exitErr, fatal, active, log, i, classified,
                   rerunProfilePath, rerunProfiles, tmpFiles, removeAttempted>>
    /\ UNCHANGED loopVars
    /\ UNCHANGED scanVars
    /\ UNCHANGED pureVars

\* coverprofile.Combine fails
CombineFails ==
    /\ pc = "combine"
    /\ opts.isCoverprofile
    /\ Return(Err("failed to combine coverprofiles", 0), "combine")
    /\ UNCHANGED <<exitErr, active, log, i, classified>>
    /\ UNCHANGED loopVars
    /\ UNCHANGED scanVars
    /\ UNCHANGED coverVars
    /\ UNCHANGED pureVars

Next ==
    \/ BeginRound
    \/ EndRound
    \/ ExitLoop
    \/ StartGoTest
    \/ StartGoTestFails
    \/ \E event \in EmittedEvents, result \in HandlerResults : ScanEvent(event, result)
    \/ ScanProtocolError
    \/ ScanPanic
    \/ ScanEnds
    \/ ScanFails
    \/ \E err \in ExitErrors : Wait(err)
    \/ ParseProfiles
    \/ ParseProfilesFails
    \/ RemoveProfile
    \/ RemoveProfileFails
    \/ Classify
    \/ CombineAndReturn
    \/ CombineFails

Spec == Init /\ [][Next]_vars

\* rerunFailed runs on: a step that can be taken is taken.  The calls it
\* waits in (the scan of the events, the wait for the exit) return, as every
\* subprocess exits and its streams end.
FairSpec == Spec /\ WF_vars(Next)

(***************************************************************************)
(* goTestRunFlagForTestCase, lines 193-209.  Strings are sequences of      *)
(* characters.                                                             *)
(***************************************************************************)
\* longest test name that is tried
MaxNameLen == 4
\* the characters of the test names that are tried: a letter, a space, a
\* character that is special in a regular expression, and the separator
NameChars == {"F", " ", ".", "/"}

\* the characters regexp.QuoteMeta escapes
RegexpSpecial == {"\\", ".", "+", "*", "?", "(", ")", "|", "[", "]", "{", "}", "^", "$"}

\* regexp.QuoteMeta: a backslash before every special character
RECURSIVE QuoteMeta(_)
QuoteMeta(str) ==
    IF str = <<>> THEN <<>>
    ELSE (IF Head(str) \in RegexpSpecial THEN <<"\\", Head(str)>> ELSE <<Head(str)>>)
         \o QuoteMeta(Tail(str))

\* strings.Split(str, "/")
RECURSIVE Split(_)
Split(str) ==
    IF ~IsSubTest(str) THEN <<str>>
    ELSE LET k == CHOOSE p \in 1..Len(str) :
                      str[p] = "/" /\ \A q \in 1..(p - 1) : str[q] # "/"
         IN  <<SubSeq(str, 1, k - 1)>> \o Split(SubSeq(str, k + 1, Len(str)))

\* "-test.run="
TestRunPrefix == <<"-", "t", "e", "s", "t", ".", "r", "u", "n", "=">>

\* the loop of lines 198-205 over parts[n..]
RECURSIVE AnchoredParts(_, _)
AnchoredParts(parts, n) ==
    IF n > Len(parts) THEN <<>>
    ELSE (IF n > 1 THEN <<"/">> ELSE <<>>)
         \o <<"^">> \o QuoteMeta(parts[n]) \o <<"$">>
         \o AnchoredParts(parts, n + 1)

\* goTestRunFlagForTestCase that anchors the whole name, subtest or not
goTestRunFlagForTestCase_WholeName(test) ==
    TestRunPrefix \o <<"^">> \o QuoteMeta(test) \o <<"$">>

goTestRunFlagForTestCase(test) ==
    IF IsSubTest(test)
    THEN TestRunPrefix \o AnchoredParts(Split(test), 1)
    ELSE TestRunPrefix \o <<"^">> \o QuoteMeta(test) \o <<"$">>

RECURSIVE StringsUpTo(_, _)
StringsUpTo(chars, n) ==
    IF n = 0 THEN {<<>>}
    ELSE LET shorter == StringsUpTo(chars, n - 1)
         IN  shorter \cup {Append(str, c) : str \in {t \in shorter : Len(t) = n - 1},
                                            c \in chars}

\* rerunFailed is not running
MainIdle ==
    /\ initialFailed = <<>>
    /\ rec = newFailureRecorder
    /\ nextRec = newFailureRecorder
    /\ attempts = 0
    /\ selected = <<>>
    /\ i = 0
    /\ pc = "idle"
    /\ exitErr = Nil
    /\ rerunProfilePath = ""
    /\ rerunProfiles = <<>>
    /\ tmpFiles = {}
    /\ mainProfile = [writes |-> 0, combined |-> <<>>]
    /\ ret = Nil
    /\ fatal = ""
    /\ active = {}
    /\ log = <<>>
    /\ rounds = 0
    /\ nevents = 0
    /\ stream = <<>>
    /\ forwarded = <<>>
    /\ roundFailed = {}
    /\ handedOver = {}
    /\ removeAttempted = {}
    /\ classified = NoClassification

\* the variables of rerunFailed but opts and exec
mainVars == <<initialFailed, rec, nextRec, attempts, selected, i, pc, exitErr,
              rerunProfilePath, rerunProfiles, tmpFiles, mainProfile, ret, fatal,
              active, log, rounds, nevents, stream, forwarded, roundFailed,
              handedOver, removeAttempted, classified>>

NoOpts == [rerunFailsMaxAttempts |-> 0, rerunFailsRunRootCases |-> FALSE,
           isCoverprofile |-> FALSE]
NoExec == [failed |-> <<>>, passed |-> <<>>, errors |-> 0, panic |-> FALSE]

\* a call of goTestRunFlagForTestCase with a test name that is not empty
InitRunFlag ==
    /\ MainIdle
    /\ opts = NoOpts
    /\ exec = NoExec
    /\ fnpc = "call"
    /\ testName \in StringsUpTo(NameChars, MaxNameLen) \ {<<>>}
    /\ runFlag = <<>>
    /\ report = NoReport

RunFlagForTestCase ==
    /\ fnpc = "call"
    /\ runFlag' = goTestRunFlagForTestCase(testName)
    /\ fnpc' = "returned"
    /\ UNCHANGED <<opts, exec, testName, report>>
    /\ UNCHANGED mainVars

NextRunFlag == RunFlagForTestCase

SpecRunFlag == InitRunFlag /\ [][NextRunFlag]_vars

(***************************************************************************)
(* writeRerunFailsReport, lines 211-259.  Package names, test names and    *)
(* the keys of the report are sequences of characters.                     *)
(***************************************************************************)
\* longest list of failed cases, and of passed cases, of the execution
MaxReportLen == 2

\* the cases of the executions that are tried: two (package, test) pairs
\* with the same key "p.q.A", and one test failing in two packages
ReportCases == {[Package |-> <<"p">>, Test |-> <<"q", ".", "A">>],
                [Package |-> <<"p", ".", "q">>, Test |-> <<"A">>],
                [Package |-> <<"p">>, Test |-> <<"B">>],
                [Package |-> <<"o">>, Test |-> <<"B">>]}

\* the byte of a character of these names
Byte(c) ==
    CASE c = "." -> 46 [] c = "A" -> 65 [] c = "B" -> 66
      [] c = "o" -> 111 [] c = "p" -> 112 [] c = "q" -> 113

\* a < b for Go strings: byte by byte, a proper prefix first
RECURSIVE StringLess(_, _)
StringLess(a, b) ==
    IF b = <<>> THEN FALSE
    ELSE IF a = <<>> THEN TRUE
    ELSE IF a[1] = b[1] THEN StringLess(Tail(a), Tail(b))
    ELSE Byte(a[1]) < Byte(b[1])

\* sort.Strings that leaves the names as they are
SortStrings_Unsorted(names) == names

\* sort.Strings: the names in ascending order
RECURSIVE SortStrings(_)
SortStrings(names) ==
    IF names = <<>> THEN <<>>
    ELSE LET least == CHOOSE k \in 1..Len(names) :
                          \A j \in 1..Len(names) : ~StringLess(names[j], names[k])
         IN  <<names[least]>>
             \o SortStrings(SubSeq(names, 1, least - 1) \o SubSeq(names, least + 1, Len(names)))

\* failure.Package + "." + failure.Test.Name()
ReportName(failure) == failure.Package \o <<".">> \o failure.Test

\* the names of failed[1..n] in the order of their first occurrence
RECURSIVE ReportNames(_, _)
ReportNames(failed, n) ==
    IF n = 0 THEN <<>>
    ELSE LET names == ReportNames(failed, n - 1)
         IN  IF ReportName(failed[n]) \in Range(names)
             THEN names
             ELSE Append(names, ReportName(failed[n]))

\* the number of cases of tcs whose test is test
CountTest(tcs, test) == Len(SelectSeq(tcs, LAMBDA tc : tc.Test = test))

\* the counts that take every failed case of the package for the test
testCaseCounts_AnyTest(execution, failure) ==
    [total  |-> Len(PackageFailed(execution, failure.Package))
                + CountTest(PackagePassed(execution, failure.Package), failure.Test),
     failed |-> Len(PackageFailed(execution, failure.Package))]

\* the counts of lines 229-242 for one failure
testCaseCounts(execution, failure) ==
    [total  |-> CountTest(PackageFailed(execution, failure.Package), failure.Test)
                + CountTest(PackagePassed(execution, failure.Package), failure.Test),
     failed |-> CountTest(PackageFailed(execution, failure.Package), failure.Test)]

\* results[name]: the counts of the first failure with that name
ReportResults(execution, name) ==
    LET failed == ExecFailed(execution)
        first  == CHOOSE k \in 1..Len(failed) :
                      /\ ReportName(failed[k]) = name
                      /\ \A j \in 1..(k - 1) : ReportName(failed[j]) # name
    IN  testCaseCounts(execution, failed[first])

\* the lines written: the arguments of Fprintf, one record per line
ReportLines(execution) ==
    LET names == SortStrings(ReportNames(ExecFailed(execution), Len(ExecFailed(execution))))
    IN  [k \in 1..Len(names) |->
            [name   |-> names[k],
             total  |-> ReportResults(execution, names[k]).total,
             failed |-> ReportResults(execution, names[k]).failed]]

\* line 212: nothing to do
ReportNotWanted(o) == o.rerunFailsMaxAttempts = 0 \/ o.rerunFailsReportFile = ""

\* the cases of tcs are grouped by package, the packages in ascending order
ByPackage(tcs) ==
    \A j, k \in 1..Len(tcs) : j < k => ~StringLess(tcs[k].Package, tcs[j].Package)

RECURSIVE SeqsUpTo(_, _)
SeqsUpTo(S, n) ==
    IF n = 0 THEN {<<>>}
    ELSE LET shorter == SeqsUpTo(S, n - 1)
         IN  shorter \cup {Append(s, x) : s \in {t \in shorter : Len(t) = n - 1}, x \in S}

\* a call of writeRerunFailsReport at the end of a session
InitReport ==
    /\ MainIdle
    /\ opts \in [rerunFailsMaxAttempts : 0..1, rerunFailsReportFile : {"", "report"}]
    /\ exec \in [failed : {f \in SeqsUpTo(ReportCases, MaxReportLen) : ByPackage(f)},
                 passed : {p \in SeqsUpTo(ReportCases, MaxReportLen) : ByPackage(p)},
                 errors : {0}, panic : {FALSE}]
    /\ fnpc = "call"
    /\ testName = <<>>
    /\ runFlag = <<>>
    /\ report = NoReport

\* writeRerunFailsReport returns nil: nothing to do, or the report is written
WriteReport ==
    /\ fnpc = "call"
    /\ report' = IF ReportNotWanted(opts)
                 THEN [err |-> Nil, written |-> FALSE, lines |-> <<>>]
                 ELSE [err |-> Nil, written |-> TRUE, lines |-> ReportLines(exec)]
    /\ fnpc' = "returned"
    /\ UNCHANGED <<opts, exec, testName, runFlag>>
    /\ UNCHANGED mainVars

\* os.Create fails: writeRerunFailsReport returns its error
WriteReportCreateFails ==
    /\ fnpc = "call"
    /\ ~ReportNotWanted(opts)
    /\ report' = [err |-> Err("create", 0), written |-> FALSE, lines |-> <<>>]
    /\ fnpc' = "returned"
    /\ UNCHANGED <<opts, exec, testName, runFlag>>
    /\ UNCHANGED mainVars

NextReport ==
    \/ WriteReport
    \/ WriteReportCreateFails

SpecReport == InitReport /\ [][NextReport]_vars

(***************************************************************************)
(* Properties                                                              *)
(***************************************************************************)
InRound == pc \in {"iter", "scan", "wait", "parse", "remove", "classify"}
Returned == pc = "done"
MaxOf(S) == CHOOSE x \in S : \A y \in S : y <= x

\* the invocation ran to its end, exited with code 0 and reported no failure
InvocationPassed(entry) == entry.waited /\ entry.exit = Nil /\ entry.fails = <<>>
\* the invocation exited with code 1 after one fail event, of its own case
InvocationFailedAgain(entry) ==
    entry.waited /\ entry.exit = ExitError(1) /\ entry.fails = <<entry.tc>>

\* the run of the end-to-end scenario: A and B failed at first, the first
\* round reruns A, which passes, and B, which fails again, and the next
\* invocation, of the second round, passes
C1_Scenario ==
    /\ initialFailed = <<Case(TestA), Case(TestB)>>
    /\ opts.rerunFailsMaxAttempts = 3
    /\ Len(log) >= 3
    /\ log[1].tc = Case(TestA) /\ log[1].attempt = 0 /\ InvocationPassed(log[1])
    /\ log[2].tc = Case(TestB) /\ log[2].attempt = 0 /\ InvocationFailedAgain(log[2])
    /\ log[3].attempt = 1 /\ InvocationPassed(log[3])

\* C1: in the end-to-end scenario (A and B fail at first, maxAttempts = 3,
\* round 1 reruns both, A passes and B fails with exit code 1, round 2
\* passes) the second round reruns B alone, there are three invocations and
\* two rounds and never a third, and rerunFailed returns nil unless a fatal
\* condition ended the session.
C1_EndToEnd ==
    C1_Scenario =>
        /\ log[3].tc = Case(TestB)
        /\ Len(log) = 3
        /\ rounds = 2
        /\ (Returned /\ fatal = "" => ret = Nil)

C1_Witness == C1_Scenario /\ Returned /\ fatal = "" /\ ret = Nil /\ rounds = 2

\* C2: the number of rounds never exceeds rerunFailsMaxAttempts, a round is
\* under way only with a non-empty failing set, and with maxAttempts = 0 or
\* no initial failure no round begins and no subprocess is started.
C2_RoundsBounded ==
    /\ rounds <= opts.rerunFailsMaxAttempts
    /\ (InRound => count(rec) > 0 /\ rounds = attempts + 1)
    /\ (opts.rerunFailsMaxAttempts = 0 \/ initialFailed = <<>> =>
            rounds = 0 /\ log = <<>> /\ active = {})

C2_Witness ==
    /\ Returned /\ fatal = ""
    /\ rounds = opts.rerunFailsMaxAttempts
    /\ rounds >= 2
    /\ count(rec) > 0

\* C3: after a round completes, the failing set that drives the next round is
\* exactly the set of cases with a non-package fail event in that round, and
\* during a round its recorder holds exactly the cases seen failing so far
\* in it: no case of the initial run or of an earlier round is carried over.
C3_HandOver ==
    /\ (attempts > 0 => Range(rec.failures) = handedOver)
    /\ (InRound => Range(nextRec.failures) = roundFailed)

C3_Witness ==
    /\ attempts > 0
    /\ pc = "iter"
    /\ rec.failures # <<>>
    /\ \E tc \in Range(initialFailed) : tc \notin Range(rec.failures)
    /\ \E k \in 1..Len(stream) : PackageEvent(stream[k])

\* the exit code hasErrors decides on: 0 for nil
ClassifiedCode == IF classified.err = Nil THEN 0 ELSE classified.err.code

\* C4: hasErrors returns an error exactly when the execution has a protocol
\* error, or the exit code (0 for nil) is 2 or more, or a panic is suspected,
\* and the reason it gives is the first of these, in this order, that holds.
C4_Classifier ==
    classified.called =>
        /\ classified.result # Nil <=>
              (classified.errors > 0 \/ ClassifiedCode >= 2 \/ classified.panic)
        /\ (classified.errors > 0 => classified.result.kind = "previous run had errors")
        /\ (classified.errors = 0 /\ ClassifiedCode >= 2 =>
              classified.result.kind = "unexpected go test exit code")
        /\ (classified.errors = 0 /\ ClassifiedCode < 2 /\ classified.panic =>
              classified.result.kind = "suspected panic")
        /\ (ClassifiedCode \in {0, 1} /\ classified.errors = 0 /\ ~classified.panic =>
              classified.result = Nil)

C4_Witness ==
    /\ classified.called
    /\ classified.errors > 0
    /\ ClassifiedCode >= 2
    /\ classified.panic
    /\ classified.result.kind = "previous run had errors"

\* the exit errors that are not nil of the invocations of the last round begun
LastRoundErrors == {k \in 1..Len(log) : log[k].attempt = rounds - 1 /\ log[k].exit # Nil}

\* C5, as stated: without a fatal condition rerunFailed returns the exit
\* error of the last invocation that ran, nil if that one exited with code 0
\* or if none ran.
C5_LastInvocation ==
    Returned /\ fatal = "" =>
        ret = IF log = <<>> THEN Nil ELSE log[Len(log)].exit

\* C5, amended: without a fatal condition rerunFailed returns the exit error
\* of the latest invocation of the last round begun that exited with a code
\* other than 0, and nil if that round has no such invocation or no round
\* began.
C5_LastRecordedError ==
    Returned /\ fatal = "" =>
        ret = IF LastRoundErrors = {} THEN Nil ELSE log[MaxOf(LastRoundErrors)].exit

C5_Witness ==
    /\ Returned /\ fatal = ""
    /\ log # <<>>
    /\ log[Len(log)].exit = Nil
    /\ log[Len(log)].attempt = rounds - 1
    /\ ret # Nil

\* C6: when hasErrors ends the session and coverage is on, rerunFailed
\* returns the classifier's error and the profiles parsed so far are
\* combined into the original coverage file.
C6_AbortKeepsCoverage ==
    Returned /\ fatal = "classifier" /\ opts.isCoverprofile =>
        /\ ret = classified.result
        /\ mainProfile.writes = 1
        /\ mainProfile.combined = rerunProfiles

\* C7: when the removal of a temporary coverage file fails, the failure is
\* returned and the profile parsed from that file is among the profiles
\* combined into the original coverage file.
C7_RemoveFailureKeepsProfile ==
    Returned /\ fatal = "remove" =>
        /\ ret.kind = "failed to remove coverprofile"
        /\ rerunProfilePath \in Range(rerunProfiles)
        /\ rerunProfilePath \in Range(mainProfile.combined)

\* C8: with coverage on, when rerunFailed has returned, whether normally or
\* from a failed step of a round, the removal of the temporary coverage file
\* of every invocation started has been attempted.
C8_NoTemporaryLeft ==
    Returned /\ opts.isCoverprofile =>
        \A k \in 1..Len(log) : log[k].path \in removeAttempted

\* C9: with coverage on, two invocations of a session never have the same
\* temporary coverage path, no temporary path is the original coverage path,
\* and the original coverage file is written by nothing but the combination
\* at the end.
C9_UniquePaths ==
    opts.isCoverprofile =>
        /\ \A j, k \in 1..Len(log) :
              j # k => /\ <<log[j].attempt, log[j].i>> # <<log[k].attempt, log[k].i>>
                       /\ log[j].path # log[k].path
        /\ \A k \in 1..Len(log) : log[k].path # mainProfilePath
        /\ mainProfilePath \notin tmpFiles
        /\ (~Returned => mainProfile.writes = 0)

C9_Witness ==
    /\ opts.isCoverprofile
    /\ Len(log) >= 3
    /\ log[1].attempt = log[2].attempt
    /\ log[3].attempt # log[1].attempt
    /\ log[3].i = log[1].i

\* C10: at most one subprocess is active; an invocation is started only when
\* the scan of every earlier one has ended and its exit has been awaited; and
\* the invocations of a round take the cases the filter gave, in its order.
C10_Sequential ==
    /\ Cardinality(active) <= 1
    /\ \A k \in 1..(Len(log) - 1) : log[k].scanned /\ log[k].waited
    /\ \A k \in 1..Len(log) :
          /\ log[k].i = Cardinality({j \in 1..(k - 1) : log[j].attempt = log[k].attempt})
          /\ (log[k].attempt = rounds - 1 => log[k].tc = selected[log[k].i + 1])

C10_Witness ==
    /\ Len(log) >= 2
    /\ log[2].attempt = log[1].attempt
    /\ pc = "scan"
    /\ active = {<<log[2].attempt, log[2].i>>}

(***************************************************************************)
(* Properties of goTestRunFlagForTestCase                                  *)
(***************************************************************************)
\* the positions of the separators of the name, and of its two ends
Bounds(name) == {0, Len(name) + 1} \cup {p \in 1..Len(name) : name[p] = "/"}
\* the number of segments of the name
SegmentCount(name) == Cardinality(Bounds(name)) - 1
\* the k-th segment: what lies between the k-th and the next bound
Segment(name, k) ==
    LET from == CHOOSE p \in Bounds(name) : Cardinality({q \in Bounds(name) : q < p}) = k - 1
        to == CHOOSE p \in Bounds(name) : Cardinality({q \in Bounds(name) : q < p}) = k
    IN  SubSeq(name, from + 1, to - 1)

\* the escaped form of a segment, with a backslash before every character of
\* the set special
Escaped(seg, special) ==
    LET width(k) == IF seg[k] \in special THEN 2 ELSE 1
        RECURSIVE at(_)
        at(k) == IF k = 0 THEN 0 ELSE at(k - 1) + width(k)
    IN  [p \in 1..at(Len(seg)) |->
            LET k == CHOOSE j \in 1..Len(seg) : at(j - 1) < p /\ p <= at(j)
            IN  IF seg[k] \in special /\ p = at(k - 1) + 1 THEN "\\" ELSE seg[k]]

RECURSIVE JoinAnchored(_, _, _)
\* ^segment$ of the segments k.. of the name, joined by "/"
JoinAnchored(name, k, special) ==
    IF k > SegmentCount(name) THEN <<>>
    ELSE <<"^">> \o Escaped(Segment(name, k), special) \o <<"$">>
         \o (IF k < SegmentCount(name) THEN <<"/">> ELSE <<>>)
         \o JoinAnchored(name, k + 1, special)

\* the pattern of a run flag: what follows "-test.run="
Pattern(flag) == SubSeq(flag, Len(TestRunPrefix) + 1, Len(flag))

\* C11, as stated: the pattern has one ^segment$ per segment of the name,
\* joined by "/", where the space is escaped like the characters that are
\* special in a regular expression ("TestFoo/bar baz" gives ^TestFoo$/^bar\ baz$).
C11_RunFlagEscapesSpace ==
    fnpc = "returned" =>
        /\ SubSeq(runFlag, 1, Len(TestRunPrefix)) = TestRunPrefix
        /\ Pattern(runFlag) = JoinAnchored(testName, 1, RegexpSpecial \cup {" "})

\* C11, amended: the pattern has one ^segment$ per segment of the name,
\* joined by "/", where each segment is escaped as regexp.QuoteMeta does it:
\* a backslash before every character that is special in a regular
\* expression, and the space, which is not special, left as it is.
C11_RunFlag ==
    fnpc = "returned" =>
        /\ SubSeq(runFlag, 1, Len(TestRunPrefix)) = TestRunPrefix
        /\ Pattern(runFlag) = JoinAnchored(testName, 1, RegexpSpecial)

\* a subtest whose second segment holds a space and a special character
C11_Witness ==
    /\ fnpc = "returned"
    /\ testName = <<"F", "/", " ", ".">>
    /\ Pattern(runFlag) = <<"^", "F", "$", "/", "^", " ", "\\", ".", "$">>

(***************************************************************************)
(* C12: the root-only filter                                               *)
(***************************************************************************)
\* the positions of the cases whose test name has no '/'
RootPositions(tcs) == {p \in 1..Len(tcs) : "/" \notin Range(tcs[p].Test)}
\* the k-th smallest of these positions
NthRootPosition(tcs, k) ==
    CHOOSE p \in RootPositions(tcs) : Cardinality({q \in RootPositions(tcs) : q <= p}) = k

\* C12: with the root-only policy the cases selected for a round are exactly
\* the failures of the previous round whose test name is not a subtest, in
\* their original order: as many as there are such failures, the k-th
\* selected case being the k-th of them.
C12_RootOnlyFilter ==
    (InRound /\ opts.rerunFailsRunRootCases) =>
        /\ Len(selected) = Cardinality(RootPositions(rec.failures))
        /\ \A k \in 1..Len(selected) :
              selected[k] = rec.failures[NthRootPosition(rec.failures, k)]

\* a round of the root-only policy whose input was a subtest and its root:
\* only the root was selected, and its rerun has started
C12_Witness ==
    /\ opts.rerunFailsRunRootCases
    /\ pc = "scan"
    /\ rec.failures = <<Case(TestASub), Case(TestA)>>
    /\ selected = <<Case(TestA)>>

(***************************************************************************)
(* Properties of writeRerunFailsReport                                     *)
(***************************************************************************)
ReportWritten == fnpc = "returned" /\ report.written
\* the number of entries of tcs that are the case tc
Executions(tcs, tc) == Cardinality({k \in 1..Len(tcs) : tcs[k] = tc})
\* the key of a case as it stands in the report
Key(tc) == tc.Package \o <<".">> \o tc.Test
\* the first failed case with the key name
FirstWithKey(name) ==
    exec.failed[CHOOSE k \in 1..Len(exec.failed) :
                    /\ Key(exec.failed[k]) = name
                    /\ \A j \in 1..(k - 1) : Key(exec.failed[j]) # name]

\* C13: every line of the report stands for a failing test of the execution,
\* its number of failures is the number of failed executions of that test in
\* its package, its total is that number plus the number of passed
\* executions of that test in its package, and so the total is never less
\* than the number of failures.
C13_ReportCounts ==
    ReportWritten =>
        \A k \in 1..Len(report.lines) :
            LET line == report.lines[k]
            IN  /\ \E tc \in Range(exec.failed) :
                      /\ Key(tc) = line.name
                      /\ line.failed = Executions(exec.failed, tc)
                      /\ line.total = Executions(exec.failed, tc) + Executions(exec.passed, tc)
                /\ line.total >= line.failed

\* a report with a test that failed twice and passed once: 3 runs, 2 failures
C13_Witness ==
    /\ ReportWritten
    /\ \E k \in 1..Len(report.lines) :
          /\ report.lines[k].failed = 2
          /\ report.lines[k].total = 3
          /\ Executions(exec.passed, FirstWithKey(report.lines[k].name)) = 1

\* key a is before key b in the order of strings
KeyBefore(a, b) ==
    \E n \in 1..Len(b) :
        /\ \A m \in 1..(n - 1) : m <= Len(a) /\ a[m] = b[m]
        /\ \/ n = Len(a) + 1
           \/ n <= Len(a) /\ Byte(a[n]) < Byte(b[n])

\* C14: the keys of the lines of the report are exactly the keys of the
\* failing tests of the execution, each key on one line only, however often
\* it occurs among the failing tests; the counts of a line are those of the
\* first failing test with its key; and every line's key is before the key
\* of every later line in the order of strings.
C14_ReportKeys ==
    ReportWritten =>
        /\ {report.lines[k].name : k \in 1..Len(report.lines)}
              = {Key(tc) : tc \in Range(exec.failed)}
        /\ Len(report.lines) = Cardinality({Key(tc) : tc \in Range(exec.failed)})
        /\ \A k \in 1..Len(report.lines) :
              report.lines[k].failed
                  = Executions(exec.failed, FirstWithKey(report.lines[k].name))
        /\ \A j, k \in 1..Len(report.lines) :
              j < k => KeyBefore(report.lines[j].name, report.lines[k].name)

\* a report of two keys whose first occurrences were in the other order
C14_Witness ==
    /\ ReportWritten
    /\ exec.failed = <<[Package |-> <<"p">>, Test |-> <<"q", ".", "A">>],
                       [Package |-> <<"p">>, Test |-> <<"B">>]>>
    /\ Len(report.lines) = 2
    /\ report.lines[1].name = <<"p", ".", "B">>
    /\ report.lines[2].name = <<"p", ".", "q", ".", "A">>

(***************************************************************************)
(* C15 - C20: the session as a whole                                       *)
(***************************************************************************)
\* the steps of an invocation whose error ends the session
FatalInRound == {"start", "scan", "parse", "remove", "classifier"}
\* the positions of the invocations of round a (rounds count from 0)
InvocationsOf(a) == {k \in 1..Len(log) : log[k].attempt = a}

\* C15: when starting a subprocess, scanning its events, parsing or removing
\* its coverage profile, or the classifier has failed, rerunFailed has
\* returned the error of that step; the invocation it failed on is the last
\* one that was started (for a start failure: the one before it), so the
\* rest of the selected cases were not run, and no later round has begun.
C15_FatalEndsSession ==
    fatal \in FatalInRound =>
        /\ Returned
        /\ ret # Nil
        /\ ret \in CASE fatal = "start"  -> {Err("start", 0)}
                     [] fatal = "scan"   -> {Err("scan", 0), Err("handler", 0)}
                     [] fatal = "parse"  -> {Err("failed to parse coverprofile", 0)}
                     [] fatal = "remove" -> {Err("failed to remove coverprofile", 0)}
                     [] fatal = "classifier" -> {classified.result}
        /\ rounds = attempts + 1
        /\ \A k \in 1..Len(log) : log[k].attempt <= attempts
        /\ {log[k].i : k \in InvocationsOf(attempts)}
              = IF fatal = "start" THEN 0..(i - 1) ELSE 0..i
        /\ Cardinality(InvocationsOf(attempts)) = IF fatal = "start" THEN i ELSE i + 1

\* the classifier ended the session on the first of two selected cases,
\* with more rounds allowed
C15_Witness ==
    /\ fatal = "classifier"
    /\ Returned
    /\ i = 0
    /\ Len(selected) = 2
    /\ attempts + 1 < opts.rerunFailsMaxAttempts
    /\ Len(log) = 1

\* the invocation that was started last
Current == log[Len(log)]
\* how far an invocation with a coverage profile has got: its events
\* consumed, its exit awaited, its profile appended to the accumulator, its
\* temporary file deleted
Consumed(entry) == entry.scanned
Awaited(entry) == entry.waited
Appended(entry) == entry.path \in Range(rerunProfiles)
Deleted(entry) == entry.path \in removeAttempted /\ entry.path \notin tmpFiles

\* C16: with coverage, an invocation goes through its steps in the order
\* start, consume the events, wait for the exit, parse and append the
\* profile, delete the temporary file, classify: at each step all the steps
\* before it are done and none of the steps after it; the invocations before
\* the current one have done them all; and when the classifier has ended the
\* session the profile of its invocation is in the accumulator and its
\* temporary file is deleted.
C16_StepOrder ==
    (opts.isCoverprofile /\ Len(log) > 0) =>
        /\ pc = "scan" =>
              ~Consumed(Current) /\ ~Awaited(Current) /\ ~Appended(Current) /\ ~Deleted(Current)
        /\ pc = "wait" =>
              Consumed(Current) /\ ~Awaited(Current) /\ ~Appended(Current) /\ ~Deleted(Current)
        /\ pc = "parse" =>
              Consumed(Current) /\ Awaited(Current) /\ ~Appended(Current) /\ ~Deleted(Current)
        /\ pc = "remove" =>
              /\ Consumed(Current) /\ Awaited(Current) /\ Appended(Current) /\ ~Deleted(Current)
              /\ rerunProfiles[Len(rerunProfiles)] = Current.path
        /\ (pc = "classify" \/ fatal = "classifier") =>
              Consumed(Current) /\ Awaited(Current) /\ Appended(Current) /\ Deleted(Current)
        /\ fatal = "classifier" => classified.called /\ classified.err = Current.exit
        /\ \A k \in 1..(Len(log) - 1) :
              Consumed(log[k]) /\ Awaited(log[k]) /\ Appended(log[k]) /\ Deleted(log[k])

\* with coverage, the classifier ended the session on an exit code above 1:
\* the profile of that invocation is parsed and its temporary file deleted
C16_Witness ==
    /\ opts.isCoverprofile
    /\ fatal = "classifier"
    /\ Returned
    /\ Current.exit = ExitError(2)
    /\ rerunProfiles = <<Current.path>>
    /\ tmpFiles = {}

\* C17: with coverage, the original coverage file is not written before
\* rerunFailed returns; and when rerunFailed has returned without a fatal
\* condition the file has been written exactly once, after the last round
\* (every round that began has ended and the loop condition is false), from
\* the profiles of all the invocations of all rounds, one per invocation, in
\* the order the invocations were started.
C17_MergeOnce ==
    opts.isCoverprofile =>
        /\ ~Returned => mainProfile.writes = 0 /\ mainProfile.combined = <<>>
        /\ (Returned /\ fatal = "") =>
              /\ mainProfile.writes = 1
              /\ Len(mainProfile.combined) = Len(log)
              /\ \A k \in 1..Len(log) : mainProfile.combined[k] = log[k].path
              /\ \A k \in 1..Len(log) : log[k].waited
              /\ rounds = attempts
              /\ ~LoopCondition

\* a session with coverage that ended without a fatal condition after two
\* rounds: the profiles of both invocations were merged, in order
C17_Witness ==
    /\ opts.isCoverprofile
    /\ Returned
    /\ fatal = ""
    /\ rounds = 2
    /\ mainProfile.writes = 1
    /\ mainProfile.combined = <<RerunProfilePath(mainProfilePath, 0, 0),
                                RerunProfilePath(mainProfilePath, 1, 0)>>

\* an event of a test (not of a package) whose action is "fail"
TestFailed(event) == event.Test # <<>> /\ event.Action = "fail"
\* the event the recorder received in this step, when it received one
Received == stream'[Len(stream')]

\* C18: the events passed on to the wrapped handler in an invocation are the
\* events the recorder received, each once and in the order of arrival,
\* whatever their kind; the recorder returned what the handler returned:
\* only the last event can have got an error from the handler, and then the
\* scan has ended and rerunFailed has returned that error; and in the step in
\* which the recorder receives an event its failure list gets one entry more
\* if the event is the failure of a test, and stays as it is otherwise.
C18_RecorderEvent ==
    /\ [](/\ Len(forwarded) = Len(stream)
          /\ \A k \in 1..Len(stream) : forwarded[k].event = stream[k]
          /\ \A k \in 1..(Len(forwarded) - 1) : forwarded[k].result = Nil
          /\ (forwarded # <<>> /\ forwarded[Len(forwarded)].result # Nil) =>
                Returned /\ fatal = "scan" /\ ret = forwarded[Len(forwarded)].result)
    /\ [][(Len(stream') = Len(stream) + 1) =>
             /\ Len(forwarded') = Len(forwarded) + 1
             /\ forwarded'[Len(forwarded')].event = Received
             /\ SubSeq(forwarded', 1, Len(forwarded)) = forwarded
             /\ IF TestFailed(Received)
                THEN /\ Len(nextRec'.failures) = Len(nextRec.failures) + 1
                     /\ SubSeq(nextRec'.failures, 1, Len(nextRec.failures)) = nextRec.failures
                ELSE nextRec'.failures = nextRec.failures]_vars

\* the recorder received the failure of a package and then the failure of a
\* test: both were passed on, the failure list has one entry
C18_Witness ==
    /\ Len(stream) = 2
    /\ stream[1].Test = <<>> /\ stream[1].Action = "fail"
    /\ stream[2].Test # <<>> /\ stream[2].Action = "fail"
    /\ forwarded = <<[event |-> stream[1], result |-> Nil],
                     [event |-> stream[2], result |-> Nil]>>
    /\ Len(nextRec.failures) = 1

\* the round that began last selected no case
EmptyRound == rounds > 0 /\ selected = <<>>

\* C19: when the filter gave no case for a round (which began because the
\* failing set was not empty), no subprocess is started in that round; the
\* round ends with an empty failing set and no recorded error, so the loop
\* condition is false and no further round begins; and rerunFailed returns
\* nil unless the merge of the coverage fails.
C19_EmptySelection ==
    EmptyRound =>
        /\ InvocationsOf(rounds - 1) = {}
        /\ pc \in {"iter", "loop", "combine", "done"}
        /\ fatal \in {"", "combine"}
        /\ pc = "iter" => rounds = attempts + 1 /\ count(rec) > 0
        /\ pc \in {"loop", "combine", "done"} =>
              /\ rounds = attempts
              /\ count(rec) = 0
              /\ rec.lastErr = Nil
              /\ ~LoopCondition
        /\ (Returned /\ fatal = "") => ret = Nil

\* root-only policy, only a subtest failed: the one round selected nothing,
\* nothing was run and rerunFailed returned nil
C19_Witness ==
    /\ EmptyRound
    /\ opts.rerunFailsRunRootCases
    /\ initialFailed = <<Case(TestASub)>>
    /\ opts.rerunFailsMaxAttempts > 1
    /\ rounds = 1
    /\ log = <<>>
    /\ Returned
    /\ ret = Nil

\* invocation j was started before invocation k in the order of the loops:
\* in an earlier round, or in the same round at a smaller index
LoopOrder(j, k) ==
    \/ log[j].attempt < log[k].attempt
    \/ log[j].attempt = log[k].attempt /\ log[j].i < log[k].i

\* C20: rerunFailed eventually returns; and all along every invocation is
\* of a round below rerunFailsMaxAttempts, the invocations of the current
\* round are of indices below the number of selected cases, and a later
\* invocation is of a later round or of a greater index of the same round,
\* so no index of a round is run twice and the invocations are finitely many.
C20_Termination ==
    /\ <>Returned
    /\ [](/\ \A k \in 1..Len(log) : log[k].attempt < opts.rerunFailsMaxAttempts
          /\ \A k \in InvocationsOf(rounds - 1) : log[k].i < Len(selected)
          /\ \A j, k \in 1..Len(log) : j < k => LoopOrder(j, k)
          /\ Len(log) <= MaxAttemptsBound * MaxOf({Len(f) : f \in InitialFailures} \cup {MaxEvents}))

\* a case failed again in its rerun and was not run again in that round: the
\* next invocation belongs to the next round, and rerunFailed has returned
C20_Witness ==
    /\ Returned
    /\ Len(log) = 2
    /\ log[1].exit = ExitError(1)
    /\ log[1].fails = <<log[1].tc>>
    /\ log[2].attempt = log[1].attempt + 1
    /\ log[2].tc = log[1].tc

====
